---- MODULE Spec2Model ----
(***************************************************************************)
(* knn_predict of "week_4/SVC and KNN.ipynb": the from-scratch k-nearest-  *)
(* neighbour classifier, one action per loop iteration.                    *)
(*                                                                         *)
(* Indices are 1-based here (Python's index i is i + 1).  Feature values   *)
(* are small integers, so the sums of squares are exact; np.sqrt is        *)
(* strictly increasing on them, so a distance is represented by its        *)
(* radicand (the sum of squares) and compared through it.                  *)
(***************************************************************************)
EXTENDS Integers, Sequences, FiniteSets

VARIABLES X_train, n_features, y_train, X_test, k,
          pc, i, y_pred, nearest_neighbors, error

\* X_train, y_train, X_test, k: the arguments of the call; n_features is the
\*   row length of X_train (its shape when it has no rows).
\* pc, i: the position in the loop; y_pred, nearest_neighbors: the locals;
\* error: the exception raised.
vars == <<X_train, n_features, y_train, X_test, k,
          pc, i, y_pred, nearest_neighbors, error>>

inputs == <<X_train, n_features, y_train, X_test, k>>

(* ---------------------------- bounds ---------------------------------- *)
\* The size of a call within the data model: the number of its training
\* points and query points together.
MaxPoints == 4
\* The sizes of the arrays of a call that may break the data model.
ErrMaxN == 2
ErrMaxM == 1

\* The training points of the notebook's example.
notebook_X_train == <<<<1, 2>>, <<2, 3>>, <<3, 3>>, <<5, 4>>, <<6, 5>>>>

Labels == {0, 1}
Coord == {0, 1, 2}
ValidDims == {1}
AnyDims == {1, 2, 3}

N == Len(X_train)
M == Len(X_test)

Rows(d) == [1..d -> Coord]
SeqsUpTo(S, lo, hi) == UNION {[1..n -> S] : n \in lo..hi}

(* ------------------------- numpy / Python ------------------------------ *)
Max(a, b) == IF a >= b THEN a ELSE b
Min(a, b) == IF a <= b THEN a ELSE b

\* The array (or list) of the elements f[1], ..., f[n], built once.
array(f, n) == SubSeq(f, 1, n)

\* numpy broadcasting of shape (N, dt) against shape (dq,); dt = 0 stands for
\* the 1-D array np.array([]) of shape (0,).
Broadcastable(dt, dq) == dt = dq \/ dt = 1 \/ dq = 1

\* Element j of a row stretched by broadcasting.
Elem(p, j) == IF Len(p) = 1 THEN p[1] ELSE p[j]

RECURSIVE SumSq(_, _, _)
SumSq(x, q, j) ==
  IF j = 0 THEN 0
  ELSE (Elem(x, j) - Elem(q, j)) * (Elem(x, j) - Elem(q, j)) + SumSq(x, q, j - 1)

\* ((X_train - test_point) ** 2).sum(axis=1), the radicands of np.sqrt.
distances(X, q) ==
  array([t \in 1..Len(X) |-> SumSq(X[t], q, Max(Len(X[t]), Len(q)))], Len(X))

\* Mutant of Before: the sort runs by descending distance.
Before_descending(d, a, b) == d[a] > d[b]

\* np.argsort(d) is called with the default kind ("quicksort"), which is not
\* stable: index a has to come before index b only when its key is strictly
\* less.  The order of equal keys is whatever the sort of the numpy build
\* leaves: index order from the insertion sort of the generic build on at
\* most 17 elements, another order from its median-of-3 partitioning above
\* that or from the sorting network of a SIMD-dispatched build.
Before(d, a, b) == d[a] < d[b]

\* The indices of S that can be placed next: those with no index of S that
\* has to come before them.
Placed(d, S) == {a \in S : \A b \in S : ~Before(d, b, a)}

\* The orders np.argsort can leave the indices S of d in.
RECURSIVE Orders(_, _)
Orders(d, S) ==
  IF S = {} THEN {<<>>}
  ELSE UNION {UNION {{<<a>> \o t : t \in Orders(d, T)} : T \in {S \ {a}}} :
                a \in Placed(d, S)}

\* The results np.argsort(d) can have: every order of the indices of d by
\* ascending key, one for each order of the equal keys.
argsort(d) == UNION {Orders(v, 1..Len(v)) : v \in {d}}

\* Mutant of Slice: an n past the end selects nothing instead of being cut.
Slice_uncut(s, n) ==
  LET m == IF n >= 0 THEN (IF n > Len(s) THEN 0 ELSE n) ELSE Max(Len(s) + n, 0)
  IN  SubSeq(s, 1, m)

\* s[:n] of Python: a negative n counts from the end, an n past the end is cut.
Slice(s, n) ==
  LET m == IF n >= 0 THEN Min(n, Len(s)) ELSE Max(Len(s) + n, 0)
  IN  SubSeq(s, 1, m)

Count(s, l) == Cardinality({p \in 1..Len(s) : s[p] = l})

\* The keys of Counter(s), in insertion order (first occurrence).
RECURSIVE Keys(_)
Keys(s) ==
  IF s = <<>> THEN <<>>
  ELSE LET r == Keys(SubSeq(s, 1, Len(s) - 1))
           l == s[Len(s)]
       IN  IF \E p \in 1..Len(r) : r[p] = l THEN r ELSE Append(r, l)

Counter(s) ==
  LET ks == Keys(s)
  IN  array([p \in 1..Len(ks) |-> <<ks[p], Count(s, ks[p])>>], Len(ks))

\* Mutant of most_common1: the first key inserted, whatever its count.
most_common1_first_key(c) == IF c = <<>> THEN <<>> ELSE <<c[1]>>

\* Mutant of most_common1: among the items of maximal count, the last one.
most_common1_last_max(c) ==
  IF c = <<>> THEN <<>>
  ELSE LET p == CHOOSE p \in 1..Len(c) :
                  /\ \A q \in 1..Len(c) : c[q][2] <= c[p][2]
                  /\ \A q \in (p + 1)..Len(c) : c[q][2] < c[p][2]
       IN  <<c[p]>>

\* Counter.most_common(1): heapq.nlargest(1, items, key=count), which is
\* max(items, key=count): the first item of maximal count, or [] when empty.
most_common1(c) ==
  IF c = <<>> THEN <<>>
  ELSE LET p == CHOOSE p \in 1..Len(c) :
                  /\ \A q \in 1..Len(c) : c[q][2] <= c[p][2]
                  /\ \A q \in 1..(p - 1) : c[q][2] < c[p][2]
       IN  <<c[p]>>

(* ------------------------ one loop iteration --------------------------- *)
\* np.argsort(distances)[:k], for each result the sort can have.
neighbors(X, q, kk) == {Slice(s, kk) : s \in argsort(distances(X, q))}

labels_of(y, nn) == array([p \in 1..Len(nn) |-> y[nn[p]]], Len(nn))

\* Mutant of majority_vote: most_common(1)[0][1], the count, not the label.
majority_vote_count(ls) == most_common1(Counter(ls))[1][2]

majority_vote(ls) == most_common1(Counter(ls))[1][1]

\* The prediction for a test point whose distances np.argsort sorted into s.
predict_one(y, s, kk) == majority_vote(labels_of(y, Slice(s, kk)))

\* The predictions the loop body can make for test point q, one for each
\* result the sort can have.
predictions(X, y, q, kk) ==
  {majority_vote(ls) :
     ls \in {labels_of(y, nn) : nn \in neighbors(X, q, kk)}}

\* The exception one iteration raises, "none" when it appends a prediction.
raised_by(nf, q, nn) ==
  IF ~Broadcastable(nf, Len(q)) THEN "ValueError"
  ELSE IF nf = 0 THEN "AxisError"
  ELSE IF nn = <<>> THEN "IndexError"
  ELSE "none"

\* Mutant of list_append: the prediction is put in front.
list_prepend(l, x) == <<x>> \o l

\* y_pred.append(majority_vote)
list_append(l, x) == Append(l, x)

(* ------------------------------ states --------------------------------- *)
Started ==
  /\ pc = "loop"
  /\ i = 0
  /\ y_pred = <<>>
  /\ nearest_neighbors = <<>>
  /\ error = "none"

\* Inputs within the data model: N >= 1, N + M <= MaxPoints, one
\* dimensionality, k >= 1.
InitBounded ==
  /\ \E d \in ValidDims, n \in 1..MaxPoints :
       /\ n_features = d
       /\ X_train \in [1..n -> Rows(d)]
       /\ X_test \in SeqsUpTo(Rows(d), 0, MaxPoints - n)
  /\ y_train \in [1..Len(X_train) -> Labels]
  /\ k \in 1..(Len(X_train) + 1)
  /\ Started

\* The notebook's training points, with its labels or any others, any
\* k in 1..N + 1, and its two query points or one query point equidistant
\* from the first two training points.
InitExample ==
  /\ X_train = notebook_X_train
  /\ n_features = 2
  /\ y_train \in [1..5 -> Labels]
  /\ X_test \in {<<<<1, 2>>, <<5, 3>>>>, <<<<2, 2>>>>}
  /\ k \in 1..6
  /\ Started

Init == InitBounded \/ InitExample

\* Any arrays and any integer k, the invalid ones included.
InitAny ==
  /\ \E dt \in AnyDims \cup {0}, dq \in AnyDims :
       /\ n_features = dt
       /\ IF dt = 0 THEN X_train = <<>>
          ELSE X_train \in SeqsUpTo(Rows(dt), 0, ErrMaxN)
       /\ X_test \in SeqsUpTo(Rows(dq), 0, ErrMaxM)
  /\ y_train \in [1..Len(X_train) -> Labels]
  /\ k \in (0 - ErrMaxN - 1)..(ErrMaxN + 1)
  /\ Started

\* Lines 143-152: the body of "for test_point in X_test", for test point i + 1.
LoopBody ==
  /\ pc = "loop"
  /\ i < M
  /\ LET test_point == X_test[i + 1]
     IN  \E nn \in (IF Broadcastable(n_features, Len(test_point))
                      THEN neighbors(X_train, test_point, k)
                      ELSE {<<>>}) :
           \E e \in {raised_by(n_features, test_point, nn)} :
             IF e # "none"
             THEN /\ pc' = "raised"
                  /\ error' = e
                  /\ UNCHANGED <<i, y_pred, nearest_neighbors>>
             ELSE /\ nearest_neighbors' = nn
                  /\ \E nearest_labels \in {labels_of(y_train, nn)} :
                       y_pred' = list_append(y_pred, majority_vote(nearest_labels))
                  /\ i' = i + 1
                  /\ UNCHANGED <<pc, error>>
  /\ UNCHANGED inputs

\* Line 153: return np.array(y_pred), once the loop is exhausted.
Return ==
  /\ pc = "loop"
  /\ i = M
  /\ pc' = "returned"
  /\ UNCHANGED <<inputs, i, y_pred, nearest_neighbors, error>>

Next == LoopBody \/ Return

Spec == Init /\ [][Next]_vars

SpecAny == InitAny /\ [][Next]_vars

TypeOK ==
  /\ pc \in {"loop", "returned", "raised"}
  /\ i \in 0..M
  /\ Len(y_pred) = i
  /\ error \in {"none", "ValueError", "AxisError", "IndexError"}

(* ------------------------------ claims --------------------------------- *)
\* The call's arguments break the data model of the classifier.
Invalid ==
  \/ N = 0
  \/ k <= 0
  \/ \E j \in 1..M : Len(X_test[j]) # n_features

AllLabelsSame == \A a, b \in 1..N : y_train[a] = y_train[b]

Range(s) == {s[p] : p \in 1..Len(s)}

\* The iteration for test point i has just run: nearest_neighbors and y_pred[i]
\* are its neighbours and its prediction.
Processed == i >= 1 /\ pc # "raised" /\ Len(y_pred) = i

dist_now == distances(X_train, X_test[i])

labels_now == labels_of(y_train, nearest_neighbors)

\* nn holds kk distinct training indices, in ascending distance, none farther
\* than a training point left out.
IsNearest(nn, d, kk) ==
  /\ Len(nn) = kk
  /\ \A p, r \in 1..Len(nn) : p < r => nn[p] # nn[r] /\ d[nn[p]] <= d[nn[r]]
  /\ \A a \in Range(nn) : \A b \in (1..Len(d)) \ Range(nn) : d[a] <= d[b]

\* The labels of maximal occurrence count in ls.
TopLabels(ls) ==
  {l \in Range(ls) : \A m \in Range(ls) : Count(ls, m) <= Count(ls, l)}

NotebookData ==
  /\ X_train = notebook_X_train
  /\ y_train = <<0, 0, 0, 1, 1>>
  /\ X_test = <<<<1, 2>>, <<5, 3>>>>

\* C1: for 1 <= k <= N the label predicted for a query is one of maximal
\* occurrence count among the labels of the k training points nearest to it;
\* the notebook's call (k = 3) returns [0, 1].
C1_MajorityOfKNearest ==
  /\ (Processed /\ k <= N) =>
       \E d \in {dist_now}, ls \in {labels_now} :
         /\ IsNearest(nearest_neighbors, d, k)
         /\ y_pred[i] \in TopLabels(ls)
  /\ (pc = "returned" /\ k = 3 /\ NotebookData) => y_pred = <<0, 1>>

\* C1 witness: a query whose k < N nearest neighbours carry a strict majority
\* label and a minority label.
C1_Witness ==
  /\ Processed
  /\ k < N
  /\ \E l \in Range(labels_now) :
       l # y_pred[i] /\ Count(labels_now, l) < Count(labels_now, y_pred[i])
  /\ \E b \in (1..N) \ Range(nearest_neighbors) : y_train[b] # y_pred[i]

\* C2 (as claimed, for a call with at least one query point): with a
\* dimensionality mismatch, an empty training set or k <= 0 the call fails
\* and returns no prediction sequence.
C2_InvalidArgumentsFail == (Invalid /\ M >= 1 /\ pc # "loop") => pc = "raised"

\* C3: for k > N the call does not fail and returns what it returns for k = N:
\* the neighbours of a query are all N indices as np.argsort left them, the
\* prediction is the one k = N makes from them, and every returned label is a
\* prediction of the call with k = N.
C3_ClampedToN ==
  k > N =>
    /\ pc # "raised"
    /\ Processed =>
         /\ nearest_neighbors \in argsort(dist_now)
         /\ y_pred[i] = predict_one(y_train, nearest_neighbors, N)
    /\ pc = "returned" =>
         \A j \in 1..M :
           y_pred[j] \in predictions(X_train, y_train, X_test[j], N)

\* C3 witness: a call with k > N has returned predictions for two queries.
C3_Witness == k > N /\ pc = "returned" /\ M = 2 /\ N >= 2 /\ ~AllLabelsSame

\* C4: the call returns M labels, the j-th the prediction for the j-th query
\* point; for M = 0 it returns the empty sequence.
C4_OnePredictionPerQuery ==
  /\ Processed =>
       /\ nearest_neighbors \in neighbors(X_train, X_test[i], k)
       /\ y_pred[i] = majority_vote(labels_now)
  /\ pc = "returned" =>
       /\ Len(y_pred) = M
       /\ \A j \in 1..M :
            y_pred[j] \in predictions(X_train, y_train, X_test[j], k)
       /\ M = 0 => y_pred = <<>>

\* C4 witness: two queries with different predictions have been returned.
C4_Witness == pc = "returned" /\ M = 2 /\ y_pred[1] # y_pred[2]

\* C5: for k = 1 the prediction is the label of a training point at minimal
\* distance from the query, found by a minimum over all training points.
C5_NearestPointLabel ==
  (k = 1 /\ Processed) =>
    \E d \in {dist_now} :
      \E t \in 1..N :
        /\ \A u \in 1..N : d[t] <= d[u]
        /\ nearest_neighbors = <<t>>
        /\ y_pred[i] = y_train[t]

\* C5 witness: k = 1, and a farther training point carries another label.
C5_Witness ==
  /\ Processed
  /\ k = 1
  /\ \E u \in 1..N :
       dist_now[nearest_neighbors[1]] < dist_now[u] /\ y_train[u] # y_pred[i]

\* C6 (as claimed): with an invalid argument the call fails before any query
\* point is processed, whatever the query points are, M = 0 included.
C6_FailsBeforeAnyQuery ==
  Invalid => /\ i = 0
             /\ y_pred = <<>>
             /\ pc # "returned"

\* C7: when all training labels are one label, every prediction is that label.
C7_SingleLabel ==
  \A j \in 1..Len(y_pred) : AllLabelsSame => y_pred[j] = y_train[1]

\* C7 witness: predictions returned from a training set of three points that
\* all carry the same label, the neighbours being fewer than the points.
C7_Witness == AllLabelsSame /\ pc = "returned" /\ M >= 1 /\ N = 3 /\ k < N

\* C9: when several labels share the maximal count among the k nearest, the
\* prediction is the tied label met first scanning the neighbours by
\* increasing distance.
C9_TieGoesToFirstScanned ==
  Processed =>
    \E d \in {dist_now}, ls \in {labels_now} :
      \E top \in {TopLabels(ls)} :
        Cardinality(top) >= 2 =>
          /\ \A p \in 1..(Len(nearest_neighbors) - 1) :
               d[nearest_neighbors[p]] <= d[nearest_neighbors[p + 1]]
          /\ \E p \in 1..Len(ls) :
               /\ ls[p] = y_pred[i]
               /\ ls[p] \in top
               /\ \A r \in 1..(p - 1) : ls[r] \notin top

\* C9 witness: two labels tie, the strictly closest neighbour has the higher
\* training index and its label, 1, wins.
C9_Witness ==
  /\ Processed
  /\ Cardinality(TopLabels(labels_now)) >= 2
  /\ y_pred[i] = 1
  /\ nearest_neighbors[1] > nearest_neighbors[2]
  /\ dist_now[nearest_neighbors[1]] < dist_now[nearest_neighbors[2]]

\* C10 (as claimed): training points equidistant from a query are sorted by
\* ascending training index, so the neighbours selected among equidistant
\* points are the ones of lower index.
C10_TiesInIndexOrder ==
  Processed =>
    \E d \in {dist_now}, s \in {nearest_neighbors} :
      /\ \A p, r \in 1..Len(s) : (p < r /\ d[s[p]] = d[s[r]]) => s[p] < s[r]
      /\ \A a \in Range(nearest_neighbors) :
           \A b \in (1..N) \ Range(nearest_neighbors) : d[a] = d[b] => a < b
====
